---- MODULE Spec2Model ----
(***************************************************************************)
(* State-machine model of api/models.py of bitcart: the relational schema  *)
(* (users, tokens, wallets, stores, products, invoices and the            *)
(* productsxinvoices join table) with the ON DELETE actions its foreign    *)
(* keys declare, Invoice.create and MyUpdateRequest.update/apply.           *)
(*                                                                         *)
(* Every `await` of the source is a suspension point, so each coroutine is *)
(* cut into one action per awaited operation: the synchronous code that    *)
(* precedes the await together with the effect of the awaited statement.   *)
(* Spec interleaves the request tasks at those points; SpecSerial runs one *)
(* request at a time.                                                      *)
(***************************************************************************)
EXTENDS Integers, Sequences, FiniteSets

\* ------------------------------------------------------------------ bounds

\* Largest invoice id the serial primary key hands out.
MaxInvoices == 1
\* Longest `products` list a caller passes.
MaxListLen == 2
\* Number of update requests issued in one behaviour.
MaxUpdates == 2
\* Number of rows deleted in one behaviour.
MaxDeletes == 1

\* ------------------------------------------------------------ value domains

\* SQL NULL in an integer column, Python None as a primary key.
NULL == 0

\* The request-handling tasks the web framework runs side by side.
Tasks == {"t1", "t2"}

UserIds == {1, 2}
WalletIds == {1, 2}
StoreIds == {1, 2}
ProductIds == {1, 2}
InvoiceIds == 1 .. MaxInvoices
Amounts == {10, 20}

\* Python lists of product ids, up to MaxListLen long.
ProductLists == UNION {[1 .. n -> ProductIds] : n \in 0 .. MaxListLen}

\* Python None where a row or a list is expected.
None == [id |-> NULL]

\* A Python list held in an attribute that may also be None.
PyList(s) == [items |-> s]

\* Python truthiness of a list-or-None value: None and [] are falsy.
Truthy(v) == v # None /\ v.items # <<>>

\* ------------------------------------------------------------------- state

VARIABLES
    users,              \* table users: set of ids
    tokens,             \* table tokens: rows [key, user_id]
    wallets,            \* table wallets: rows [id, xpub, balance, user_id]
    stores,             \* table stores: rows [id, wallet_id]
    products,           \* table products: rows [id, store_id, description]
    invoices,           \* table invoices: rows [id, amount, bitcoin_address, bitcoin_url]
    productsxinvoices,  \* join table: <<product_id, invoice_id>> -> number of rows
    invoices_id_seq,    \* last value of the serial invoices.id
    requests,           \* payment requests the wallet daemon has created
    pc,                 \* per task: the statement it is suspended at
    kwargs,             \* per task: the keyword arguments of the call
    product,            \* per task: Invoice.create's local `product`
    store,              \* per task: Invoice.create's local `store`
    wallet,             \* per task: Invoice.create's local `wallet`
    xpub,               \* per task: Invoice.create's local `xpub`
    btc,                \* per task: the addrequest call made through BTC(xpub=...)
    data_got,           \* per task: Invoice.create's local `data_got`
    instance,           \* per task: MyUpdateRequest._instance.id
    self_products,      \* per task: MyUpdateRequest.products
    i,                  \* per task: position of apply's `for i in self.products`
    values,             \* per task: UpdateRequest._values, the column writes
    ret,                \* per task: what the call returned or raised
    updates,            \* number of update requests issued
    deletes             \* number of rows deleted

db == <<users, tokens, wallets, stores, products, invoices, productsxinvoices,
        invoices_id_seq>>
locals == <<kwargs, product, store, wallet, xpub, btc, data_got, instance,
            self_products, i, values, ret>>
vars == <<db, requests, pc, locals, updates, deletes>>

JoinKeys == (ProductIds \cup {NULL}) \X (InvoiceIds \cup {NULL})

\* Model.get(id): the row with that primary key, or None.
Get(table, id) ==
    IF \E r \in table : r.id = id
    THEN CHOOSE r \in table : r.id = id
    ELSE None

NoResult == [kind |-> "none"]
HTTPException(status_code, detail) ==
    [kind |-> "HTTPException", status_code |-> status_code, detail |-> detail]
Raised(exc) == [kind |-> exc]

Init ==
    /\ users = UserIds
    /\ tokens = {[key |-> "k1", user_id |-> 1], [key |-> "k2", user_id |-> 2]}
    /\ wallets = {[id |-> 1, xpub |-> "xpub1", balance |-> 0, user_id |-> 1],
                  [id |-> 2, xpub |-> "xpub2", balance |-> 5, user_id |-> 2]}
    /\ stores = {[id |-> 1, wallet_id |-> 1], [id |-> 2, wallet_id |-> 2]}
    /\ products = {[id |-> 1, store_id |-> 1, description |-> "d1"],
                   [id |-> 2, store_id |-> 2, description |-> "d2"]}
    /\ invoices = {}
    /\ productsxinvoices = [k \in JoinKeys |-> 0]
    /\ invoices_id_seq = 0
    /\ requests = {}
    /\ pc = [p \in Tasks |-> "idle"]
    /\ kwargs = [p \in Tasks |-> None]
    /\ product = [p \in Tasks |-> None]
    /\ store = [p \in Tasks |-> None]
    /\ wallet = [p \in Tasks |-> None]
    /\ xpub = [p \in Tasks |-> ""]
    /\ btc = [p \in Tasks |-> None]
    /\ data_got = [p \in Tasks |-> None]
    /\ instance = [p \in Tasks |-> NULL]
    /\ self_products = [p \in Tasks |-> None]
    /\ i = [p \in Tasks |-> 1]
    /\ values = [p \in Tasks |-> None]
    /\ ret = [p \in Tasks |-> NoResult]
    /\ updates = 0
    /\ deletes = 0

\* ------------------------------------------------- foreign-key ON DELETE

\* tokens.user_id: ForeignKey("users.id", ondelete="CASCADE").
TokensOnDeleteUser(t, u) == {r \in t : r.user_id # u}

\* Mutant: wallets.user_id declared ondelete="CASCADE" like tokens.user_id.
WalletsOnDeleteUserCascade(w, u) == {r \in w : r.user_id # u}

\* wallets.user_id: ForeignKey(User.id, ondelete="SET NULL").
WalletsOnDeleteUser(w, u) ==
    {IF r.user_id = u THEN [r EXCEPT !.user_id = NULL] ELSE r : r \in w}

\* stores.wallet_id: ForeignKey("wallets.id", ondelete="SET NULL").
StoresOnDeleteWallet(s, w) ==
    {IF r.wallet_id = w THEN [r EXCEPT !.wallet_id = NULL] ELSE r : r \in s}

\* products.store_id: ForeignKey("stores.id", ondelete="SET NULL").
ProductsOnDeleteStore(ps, s) ==
    {IF r.store_id = s THEN [r EXCEPT !.store_id = NULL] ELSE r : r \in ps}

\* Mutant: productsxinvoices.product_id declared without an ON DELETE action
\* that is enforced, so the rows keep the id of the deleted product.
JoinOnDeleteProductNoAction(j, d) == j

\* productsxinvoices.product_id: ForeignKey("products.id", ondelete="SET NULL").
JoinOnDeleteProduct(j, d) ==
    [k \in JoinKeys |->
        IF k[1] = d THEN 0
        ELSE IF k[1] = NULL THEN j[k] + j[<<d, k[2]>>]
        ELSE j[k]]

\* productsxinvoices.invoice_id: ForeignKey("invoices.id", ondelete="SET NULL").
JoinOnDeleteInvoice(j, d) ==
    [k \in JoinKeys |->
        IF k[2] = d THEN 0
        ELSE IF k[2] = NULL THEN j[k] + j[<<k[1], d>>]
        ELSE j[k]]

DeleteUser(u) ==
    /\ deletes < MaxDeletes
    /\ u \in users
    /\ users' = users \ {u}
    /\ tokens' = TokensOnDeleteUser(tokens, u)
    /\ wallets' = WalletsOnDeleteUser(wallets, u)
    /\ deletes' = deletes + 1
    /\ UNCHANGED <<stores, products, invoices, productsxinvoices, invoices_id_seq,
                   requests, pc, locals, updates>>

DeleteWallet(w) ==
    /\ deletes < MaxDeletes
    /\ \E r \in wallets : r.id = w
    /\ wallets' = {r \in wallets : r.id # w}
    /\ stores' = StoresOnDeleteWallet(stores, w)
    /\ deletes' = deletes + 1
    /\ UNCHANGED <<users, tokens, products, invoices, productsxinvoices,
                   invoices_id_seq, requests, pc, locals, updates>>

DeleteStore(s) ==
    /\ deletes < MaxDeletes
    /\ \E r \in stores : r.id = s
    /\ stores' = {r \in stores : r.id # s}
    /\ products' = ProductsOnDeleteStore(products, s)
    /\ deletes' = deletes + 1
    /\ UNCHANGED <<users, tokens, wallets, invoices, productsxinvoices,
                   invoices_id_seq, requests, pc, locals, updates>>

DeleteProduct(d) ==
    /\ deletes < MaxDeletes
    /\ \E r \in products : r.id = d
    /\ products' = {r \in products : r.id # d}
    /\ productsxinvoices' = JoinOnDeleteProduct(productsxinvoices, d)
    /\ deletes' = deletes + 1
    /\ UNCHANGED <<users, tokens, wallets, stores, invoices, invoices_id_seq,
                   requests, pc, locals, updates>>

DeleteInvoice(d) ==
    /\ deletes < MaxDeletes
    /\ \E r \in invoices : r.id = d
    /\ invoices' = {r \in invoices : r.id # d}
    /\ productsxinvoices' = JoinOnDeleteInvoice(productsxinvoices, d)
    /\ deletes' = deletes + 1
    /\ UNCHANGED <<users, tokens, wallets, stores, products, invoices_id_seq,
                   requests, pc, locals, updates>>

\* ----------------------------------------------------------- Invoice.create

CreatePcs == {"create_get_product", "create_get_store", "create_get_wallet",
              "create_addrequest", "create_insert"}
UpdatePcs == {"update_delete", "update_loop"}

\* The caller awaits Invoice.create(products=..., amount=...).
CallCreate(p, prods, amount) ==
    /\ pc[p] = "idle"
    /\ kwargs' = [kwargs EXCEPT ![p] = [products |-> prods, amount |-> amount]]
    /\ pc' = [pc EXCEPT ![p] = "create_get_product"]
    /\ UNCHANGED <<db, requests, product, store, wallet, xpub, btc, data_got,
                   instance, self_products, i, values, ret, updates, deletes>>

\* raise exc out of Invoice.create.
CreateRaise(p, exc) ==
    /\ ret' = [ret EXCEPT ![p] = exc]
    /\ pc' = [pc EXCEPT ![p] = "create_raised"]

\* The four 422 errors of Invoice.create, lines 149, 152, 155 and 158.
ProductsListEmpty == HTTPException(422, <<"Products list empty">>)
ProductDoesNotExist(id) == HTTPException(422, <<"Product ", id, " doesn't exist!">>)
\* Mutant: line 155 copied from line 152 with its text left as it was.
StoreDoesNotExistAsProduct(id) == HTTPException(422, <<"Product ", id, " doesn't exist!">>)
StoreDoesNotExist(id) == HTTPException(422, <<"Store ", id, " doesn't exist!">>)
NoWalletLinked == HTTPException(422, <<"No wallet linked">>)

\* Mutant: the store and the wallet are resolved from the last product.
ProductsLast(prods) == prods[Len(prods)]

\* products[0], lines 150 and 152.
ProductsFirst(prods) == prods[1]

\* Lines 147-150: the emptiness check, then `await Product.get(products[0])`.
CreateGetProduct(p) ==
    /\ pc[p] = "create_get_product"
    /\ IF kwargs[p].products = <<>>
       THEN /\ CreateRaise(p, ProductsListEmpty)
            /\ UNCHANGED product
       ELSE /\ product' = [product EXCEPT ![p] = Get(products, ProductsFirst(kwargs[p].products))]
            /\ pc' = [pc EXCEPT ![p] = "create_get_store"]
            /\ UNCHANGED ret
    /\ UNCHANGED <<db, requests, kwargs, store, wallet, xpub, btc, data_got,
                   instance, self_products, i, values, updates, deletes>>

\* Lines 151-153: `if not product`, then `await Store.get(product.store_id)`.
CreateGetStore(p) ==
    /\ pc[p] = "create_get_store"
    /\ IF product[p] = None
       THEN /\ CreateRaise(p, ProductDoesNotExist(ProductsFirst(kwargs[p].products)))
            /\ UNCHANGED store
       ELSE /\ store' = [store EXCEPT ![p] = Get(stores, product[p].store_id)]
            /\ pc' = [pc EXCEPT ![p] = "create_get_wallet"]
            /\ UNCHANGED ret
    /\ UNCHANGED <<db, requests, kwargs, product, wallet, xpub, btc, data_got,
                   instance, self_products, i, values, updates, deletes>>

\* Lines 154-156: `if not store`, then `await Wallet.get(store.wallet_id)`.
CreateGetWallet(p) ==
    /\ pc[p] = "create_get_wallet"
    /\ IF store[p] = None
       THEN /\ CreateRaise(p, StoreDoesNotExist(product[p].store_id))
            /\ UNCHANGED wallet
       ELSE /\ wallet' = [wallet EXCEPT ![p] = Get(wallets, store[p].wallet_id)]
            /\ pc' = [pc EXCEPT ![p] = "create_addrequest"]
            /\ UNCHANGED ret
    /\ UNCHANGED <<db, requests, kwargs, product, store, xpub, btc, data_got,
                   instance, self_products, i, values, updates, deletes>>

\* What the wallet daemon answers to its n-th addrequest: a fresh receiving
\* address and the payment URI of that address.
PaymentRequest(n) == [address |-> <<"addr", n>>, URI |-> <<"bitcoin:", "addr", n>>]

\* addrequest completes: the daemon records the request and answers with it.
RpcSucceeds(p) ==
    /\ Cardinality(requests) < MaxInvoices
    /\ requests' = requests \cup {PaymentRequest(Cardinality(requests) + 1)}
    /\ data_got' = [data_got EXCEPT ![p] = PaymentRequest(Cardinality(requests) + 1)]
    /\ pc' = [pc EXCEPT ![p] = "create_insert"]
    /\ UNCHANGED ret

\* Mutant: the failure of addrequest is caught and the invoice is created
\* without an address.
RpcFailsSwallowed(p) ==
    /\ data_got' = [data_got EXCEPT ![p] = [address |-> <<>>, URI |-> <<>>]]
    /\ pc' = [pc EXCEPT ![p] = "create_insert"]
    /\ UNCHANGED <<requests, ret>>

\* addrequest fails (network error, RPC error): nothing catches the exception.
RpcFails(p) ==
    /\ CreateRaise(p, Raised("RPCError"))
    /\ UNCHANGED <<requests, data_got>>

\* Lines 157-163: `if not wallet`, xpub = wallet.xpub, then
\* `await btc.addrequest(kwargs["amount"], description=product.description)`.
CreateAddRequest(p) ==
    /\ pc[p] = "create_addrequest"
    /\ IF wallet[p] = None
       THEN /\ CreateRaise(p, NoWalletLinked)
            /\ UNCHANGED <<xpub, btc, requests, data_got>>
       ELSE /\ xpub' = [xpub EXCEPT ![p] = wallet[p].xpub]
            /\ btc' = [btc EXCEPT ![p] = [xpub |-> wallet[p].xpub,
                                          amount |-> kwargs[p].amount,
                                          description |-> product[p].description]]
            /\ \/ RpcSucceeds(p)
               \/ RpcFails(p)
    /\ UNCHANGED <<db, kwargs, product, store, wallet, instance, self_products,
                   i, values, updates, deletes>>

\* Mutant: data_got["URI"] stored as the address and data_got["address"] as the URL.
InvoiceRowSwapped(id, kw, got) ==
    [id |-> id, amount |-> kw.amount,
     bitcoin_address |-> got.URI, bitcoin_url |-> got.address]

\* The row super().create(**kwargs) inserts once lines 164-166 have put the
\* address and the URI into kwargs and popped `products`.
InvoiceRow(id, kw, got) ==
    [id |-> id, amount |-> kw.amount,
     bitcoin_address |-> got.address, bitcoin_url |-> got.URI]

\* Lines 164-167: `return await super().create(**kwargs), xpub`.
CreateInsert(p) ==
    /\ pc[p] = "create_insert"
    /\ LET row == InvoiceRow(invoices_id_seq + 1, kwargs[p], data_got[p]) IN
        /\ invoices' = invoices \cup {row}
        /\ invoices_id_seq' = invoices_id_seq + 1
        /\ ret' = [ret EXCEPT ![p] = [kind |-> "return", invoice |-> row,
                                      xpub |-> xpub[p]]]
    /\ pc' = [pc EXCEPT ![p] = "create_done"]
    /\ UNCHANGED <<users, tokens, wallets, stores, products, productsxinvoices,
                   requests, kwargs, product, store, wallet, xpub, btc, data_got,
                   instance, self_products, i, values, updates, deletes>>

\* ------------------------------------------------------ MyUpdateRequest

\* kwargs.get("products"): the list, or None when the key is absent.
KwargsGetProducts(kw) ==
    IF "products" \in DOMAIN kw THEN PyList(kw.products) ELSE None

\* kwargs.pop("products").
KwargsPopProducts(kw) == [k \in DOMAIN kw \ {"products"} |-> kw[k]]

\* Lines 119-121: what update() hands to super().update(**kwargs).
UpdateColumnKwargs(kw) ==
    IF Truthy(KwargsGetProducts(kw)) THEN KwargsPopProducts(kw) ELSE kw

\* The keyword arguments of invoice.update(...): a column, with or without
\* a `products` list.
UpdateKwargs ==
    {[amount |-> a] : a \in Amounts}
        \cup {[amount |-> a, products |-> l] : a \in Amounts, l \in ProductLists}

\* Lines 117-121: the caller calls invoice.update(**kw) on a loaded invoice d
\* and awaits .apply() on the request it returns.
CallUpdate(p, d, kw) ==
    /\ pc[p] = "idle"
    /\ updates < MaxUpdates
    /\ \E r \in invoices : r.id = d
    /\ updates' = updates + 1
    /\ kwargs' = [kwargs EXCEPT ![p] = kw]
    /\ instance' = [instance EXCEPT ![p] = d]
    /\ self_products' = [self_products EXCEPT ![p] = KwargsGetProducts(kw)]
    /\ values' = [values EXCEPT ![p] = UpdateColumnKwargs(kw)]
    /\ i' = [i EXCEPT ![p] = 1]
    /\ pc' = [pc EXCEPT ![p] = "update_delete"]
    /\ UNCHANGED <<db, requests, product, store, wallet, xpub, btc, data_got,
                   ret, deletes>>

\* Mutant: the DELETE statement of apply() matches no row.
JoinDeleteNothing(j, d) == j

\* ProductxInvoice.delete.where(ProductxInvoice.invoice_id == d).
JoinDeleteWhereInvoice(j, d) ==
    [k \in JoinKeys |-> IF k[2] = d THEN 0 ELSE j[k]]

\* Lines 124-126: the DELETE statement of apply().
UpdateDelete(p) ==
    /\ pc[p] = "update_delete"
    /\ productsxinvoices' = JoinDeleteWhereInvoice(productsxinvoices, instance[p])
    /\ pc' = [pc EXCEPT ![p] = "update_loop"]
    /\ UNCHANGED <<users, tokens, wallets, stores, products, invoices,
                   invoices_id_seq, requests, locals, updates, deletes>>

\* raise exc out of apply().
UpdateRaise(p, exc) ==
    /\ ret' = [ret EXCEPT ![p] = Raised(exc)]
    /\ pc' = [pc EXCEPT ![p] = "update_raised"]

\* Line 127 with self.products None: iterating None raises TypeError.
UpdateIterateNone(p) ==
    /\ pc[p] = "update_loop"
    /\ self_products[p] = None
    /\ UpdateRaise(p, "TypeError")
    /\ UNCHANGED <<db, requests, kwargs, product, store, wallet, xpub, btc,
                   data_got, instance, self_products, i, values, updates, deletes>>

\* The foreign keys of a new join row are checked when it is inserted.
JoinForeignKeysHold(product_id, invoice_id) ==
    /\ \E r \in products : r.id = product_id
    /\ \E r \in invoices : r.id = invoice_id

\* Lines 127-128: one `await ProductxInvoice.create(...)` of the loop.
UpdateInsert(p) ==
    /\ pc[p] = "update_loop"
    /\ self_products[p] # None
    /\ i[p] <= Len(self_products[p].items)
    /\ LET product_id == self_products[p].items[i[p]] IN
        IF JoinForeignKeysHold(product_id, instance[p])
        THEN /\ productsxinvoices' =
                    [productsxinvoices EXCEPT ![<<product_id, instance[p]>>] = @ + 1]
             /\ i' = [i EXCEPT ![p] = @ + 1]
             /\ UNCHANGED <<pc, ret>>
        ELSE /\ UpdateRaise(p, "IntegrityError")
             /\ UNCHANGED <<productsxinvoices, i>>
    /\ UNCHANGED <<users, tokens, wallets, stores, products, invoices,
                   invoices_id_seq, requests, kwargs, product, store, wallet, xpub,
                   btc, data_got, instance, self_products, values, updates, deletes>>

\* UPDATE invoices SET amount = ... WHERE id = d.
InvoicesUpdateWhereId(inv, d, vals) ==
    {IF r.id = d THEN [r EXCEPT !.amount = vals.amount] ELSE r : r \in inv}

\* Lines 129-130: the loop is over, `self._instance.products = self.products`
\* sets an attribute of the in-memory object only, then
\* `return await super().apply()`.  The column update is declared in gino; a `products` entry left in _values names
\* no column of invoices, and either outcome of passing it on is allowed here:
\* the statement is rejected, or the entry is dropped and the row updated.
UpdateApply(p) ==
    /\ pc[p] = "update_loop"
    /\ self_products[p] # None
    /\ i[p] > Len(self_products[p].items)
    /\ \/ /\ "products" \in DOMAIN values[p]
          /\ UpdateRaise(p, "CompileError")
          /\ UNCHANGED invoices
       \/ /\ \E r \in invoices : r.id = instance[p]
          /\ invoices' = InvoicesUpdateWhereId(invoices, instance[p], values[p])
          /\ ret' = [ret EXCEPT ![p] = [kind |-> "applied"]]
          /\ pc' = [pc EXCEPT ![p] = "update_done"]
       \/ /\ "products" \notin DOMAIN values[p]
          /\ ~ \E r \in invoices : r.id = instance[p]
          /\ UpdateRaise(p, "NoSuchRowError")
          /\ UNCHANGED invoices
    /\ UNCHANGED <<users, tokens, wallets, stores, products, productsxinvoices,
                   invoices_id_seq, requests, kwargs, product, store, wallet, xpub,
                   btc, data_got, instance, self_products, i, values, updates,
                   deletes>>

\* The caller has its result or its exception; the task takes the next request.
Finish(p) ==
    /\ pc[p] \in {"create_done", "create_raised", "update_done", "update_raised"}
    /\ pc' = [pc EXCEPT ![p] = "idle"]
    /\ kwargs' = [kwargs EXCEPT ![p] = None]
    /\ product' = [product EXCEPT ![p] = None]
    /\ store' = [store EXCEPT ![p] = None]
    /\ wallet' = [wallet EXCEPT ![p] = None]
    /\ xpub' = [xpub EXCEPT ![p] = ""]
    /\ btc' = [btc EXCEPT ![p] = None]
    /\ data_got' = [data_got EXCEPT ![p] = None]
    /\ instance' = [instance EXCEPT ![p] = NULL]
    /\ self_products' = [self_products EXCEPT ![p] = None]
    /\ i' = [i EXCEPT ![p] = 1]
    /\ values' = [values EXCEPT ![p] = None]
    /\ ret' = [ret EXCEPT ![p] = NoResult]
    /\ UNCHANGED <<db, requests, updates, deletes>>

\* ------------------------------------------------------- specifications

\* A request arrives and is handed to a task that handles none.
Call ==
    /\ \E p \in Tasks : pc[p] = "idle"
    /\ LET p == CHOOSE q \in Tasks : pc[q] = "idle" IN
        \/ \E prods \in ProductLists, amount \in Amounts :
                CallCreate(p, prods, amount)
        \/ \E d \in InvoiceIds, kw \in UpdateKwargs : CallUpdate(p, d, kw)

Delete ==
    \/ \E u \in UserIds : DeleteUser(u)
    \/ \E w \in WalletIds : DeleteWallet(w)
    \/ \E s \in StoreIds : DeleteStore(s)
    \/ \E d \in ProductIds : DeleteProduct(d)
    \/ \E d \in InvoiceIds : DeleteInvoice(d)

\* A task resumes at the statement it is suspended at.
Resume(p) ==
    \/ CreateGetProduct(p)
    \/ CreateGetStore(p)
    \/ CreateGetWallet(p)
    \/ CreateAddRequest(p)
    \/ CreateInsert(p)
    \/ UpdateDelete(p)
    \/ UpdateIterateNone(p)
    \/ UpdateInsert(p)
    \/ UpdateApply(p)
    \/ Finish(p)

\* Requests are handled by cooperative tasks that interleave at every await.
Next ==
    \/ Call
    \/ \E p \in Tasks : Resume(p)
    \/ Delete

Spec == Init /\ [][Next]_vars

AllIdle == \A q \in Tasks : pc[q] = "idle"

\* One request at a time: nothing else runs between a call and its result.
NextSerial ==
    \/ AllIdle /\ Call
    \/ \E p \in Tasks : Resume(p)
    \/ AllIdle /\ Delete

SpecSerial == Init /\ [][NextSerial]_vars

\* ------------------------------------------------------------ properties

\* The number of join rows.
RECURSIVE SumOver(_, _)
SumOver(j, keys) ==
    IF keys = {} THEN 0
    ELSE LET k == CHOOSE x \in keys : TRUE IN j[k] + SumOver(j, keys \ {k})
JoinRowCount(j) == SumOver(j, JoinKeys)

ProductExists(id) == \E r \in products : r.id = id
InvoiceExists(id) == \E r \in invoices : r.id = id

C10_DeleteUserCascadesTokensKeepsWallets ==
    [][\A u \in UserIds :
        (u \in users /\ u \notin users') =>
            /\ tokens' = {t \in tokens : t.user_id # u}
            /\ wallets' = {IF w.user_id = u
                           THEN [id |-> w.id, xpub |-> w.xpub, balance |-> w.balance,
                                 user_id |-> NULL]
                           ELSE w : w \in wallets}
            /\ {w.id : w \in wallets'} = {w.id : w \in wallets}]_vars

\* C10 witness: user 1 is deleted, its token is gone, its wallet is still there
\* with user_id NULL, and user 2 still has its token and its wallet.
C10_Witness ==
    /\ users = {2}
    /\ tokens = {[key |-> "k2", user_id |-> 2]}
    /\ [id |-> 1, xpub |-> "xpub1", balance |-> 0, user_id |-> NULL] \in wallets
    /\ [id |-> 2, xpub |-> "xpub2", balance |-> 5, user_id |-> 2] \in wallets

\* The products list resolves: its first product exists, that product's store
\* exists and that store's wallet exists.
FirstProduct(prods) == Get(products, prods[1])
FirstStore(prods) == Get(stores, FirstProduct(prods).store_id)
FirstWallet(prods) == Get(wallets, FirstStore(prods).wallet_id)
ValidChain(prods) ==
    /\ prods # <<>>
    /\ FirstProduct(prods) # None
    /\ FirstStore(prods) # None
    /\ FirstWallet(prods) # None

\* Task p takes a step of Invoice.create.
CreateStep(p) == pc[p] \in CreatePcs /\ pc'[p] # pc[p]

\* C1: Invoice.create on a valid chain with an RPC call that succeeds inserts
\* exactly one invoice row (at its last statement, none before), whose
\* bitcoin_address and bitcoin_url are the address and the URI the RPC call
\* returned, and returns that row with the xpub of the resolved wallet.
C1_CreateInsertsOneInvoiceWithRpcAddress ==
    [][\A p \in Tasks :
        (CreateStep(p) /\ ValidChain(kwargs[p].products)) =>
            IF pc'[p] \in {"create_done", "create_raised"} /\ ret'[p].kind # "RPCError"
            THEN /\ pc'[p] = "create_done"
                 /\ data_got[p] \in requests
                 /\ \E row \in invoices' :
                        /\ row \notin invoices
                        /\ invoices' = invoices \cup {row}
                        /\ row.bitcoin_address = data_got[p].address
                        /\ row.bitcoin_url = data_got[p].URI
                        /\ ret'[p] = [kind |-> "return", invoice |-> row,
                                      xpub |-> FirstWallet(kwargs[p].products).xpub]
            ELSE invoices' = invoices]_vars

\* C1 witness: a create has returned an invoice that is a row of the table.
C1_Witness ==
    \E p \in Tasks :
        /\ pc[p] = "create_done"
        /\ ret[p].invoice \in invoices
        /\ ret[p].invoice.bitcoin_address = <<"addr", 1>>
        /\ ret[p].xpub \in {"xpub1", "xpub2"}

\* The 422 error Invoice.create owes for a products list that does not resolve.
ValidationError(prods) ==
    IF prods = <<>> THEN HTTPException(422, <<"Products list empty">>)
    ELSE IF FirstProduct(prods) = None
        THEN HTTPException(422, <<"Product ", prods[1], " doesn't exist!">>)
    ELSE IF FirstStore(prods) = None
        THEN HTTPException(422, <<"Store ", FirstProduct(prods).store_id,
                                  " doesn't exist!">>)
    ELSE HTTPException(422, <<"No wallet linked">>)

\* C2: when the products list is empty or its first product, that product's
\* store or that store's wallet is missing, no step of Invoice.create writes an
\* invoice row or a join row or reaches the RPC call, and the call ends by
\* raising the 422 error of the first check that fails; a list that resolves
\* never gets a 422.
C2_ValidationFailureRaises422WithoutWrites ==
    [][\A p \in Tasks :
        CreateStep(p) =>
            IF ValidChain(kwargs[p].products)
            THEN ret'[p].kind # "HTTPException"
            ELSE /\ UNCHANGED <<invoices, productsxinvoices, requests>>
                 /\ btc'[p] = None
                 /\ pc'[p] \notin {"create_insert", "create_done"}
                 /\ pc'[p] = "create_raised" =>
                        ret'[p] = ValidationError(kwargs[p].products)]_vars

\* C2 witness: an invoice row and a join row exist and a create has raised the
\* error of the third of the four checks.
C2_Witness ==
    \E p \in Tasks :
        /\ pc[p] = "create_raised"
        /\ ret[p] = HTTPException(422, <<"Store ", NULL, " doesn't exist!">>)
        /\ invoices # {}
        /\ \E k \in JoinKeys : productsxinvoices[k] > 0

Count(l, id) == Cardinality({n \in DOMAIN l : l[n] = id})

\* The join rows of invoice d, by product_id.
JoinRowsOf(d) == [id \in ProductIds \cup {NULL} |-> productsxinvoices[<<id, d>>]]

\* One join row per id of the list l.
OneRowPerId(l) ==
    [id \in ProductIds \cup {NULL} |-> IF id = NULL THEN 0 ELSE Count(l, id)]

HasProducts(p) == "products" \in DOMAIN kwargs[p]

\* C4: once an update called with a products list P has completed, the join
\* rows of its invoice are exactly one row per id in P: whatever rows the
\* invoice had before are gone.
C4_UpdateReplacesAssociations ==
    \A p \in Tasks :
        (pc[p] = "update_done" /\ HasProducts(p)) =>
            JoinRowsOf(instance[p]) = OneRowPerId(kwargs[p].products)

\* C4 witness: the second update of the invoice has completed with a list of
\* two ids, and the invoice has those two rows.
C4_Witness ==
    \E p \in Tasks :
        /\ pc[p] = "update_done"
        /\ updates = 2
        /\ kwargs[p].products = <<2, 2>>
        /\ productsxinvoices[<<2, instance[p]>>] = 2
        /\ productsxinvoices[<<1, instance[p]>>] = 0

\* C5 as claimed: no step of an update called without `products` deletes or
\* inserts a join row.
C5_OmittedProductsLeavesJoinTableUntouched ==
    [][\A p \in Tasks :
        (pc[p] \in UpdatePcs /\ ~ HasProducts(p) /\ pc'[p] # pc[p]) =>
            productsxinvoices' = productsxinvoices]_vars

\* C6 as claimed: an update called with products=[] has the empty list taken
\* out of the column writes, does not fail, and has left its invoice without
\* join rows when it completes.
C6_EmptyProductsExtractedAndWiped ==
    \A p \in Tasks :
        (pc[p] \in UpdatePcs \cup {"update_done", "update_raised"}
            /\ HasProducts(p) /\ kwargs[p].products = <<>>) =>
            /\ "products" \notin DOMAIN values[p]
            /\ pc[p] # "update_raised"
            /\ pc[p] = "update_done" => JoinRowsOf(instance[p]) = OneRowPerId(<<>>)

\* C7 as claimed: when two updates of the same invoice with non-empty product
\* lists P1 and P2 have both completed (no row having been deleted by anyone
\* else), the join rows of the invoice are exactly those of P1 or exactly
\* those of P2.
C7_ConcurrentUpdatesLeaveOneList ==
    \A p, q \in Tasks :
        (p # q /\ pc[p] = "update_done" /\ pc[q] = "update_done"
            /\ instance[p] = instance[q] /\ HasProducts(p) /\ HasProducts(q)
            /\ kwargs[p].products # <<>> /\ kwargs[q].products # <<>>
            /\ deletes = 0) =>
            \/ JoinRowsOf(instance[p]) = OneRowPerId(kwargs[p].products)
            \/ JoinRowsOf(instance[p]) = OneRowPerId(kwargs[q].products)

\* C8: what Invoice.create does with a non-empty list is what it does with the
\* list of its first id alone, so any two lists with the same first id fare
\* alike: the same 422 error, or the same xpub and description passed to the
\* RPC call and the same xpub returned, whatever the later ids name.
C8_OnlyFirstProductDecides ==
    \A p \in Tasks :
        (pc[p] \in {"create_done", "create_raised"} /\ kwargs[p].products # <<>>) =>
            LET first == <<kwargs[p].products[1]>> IN
            IF ValidChain(first)
            THEN /\ btc[p] = [xpub |-> FirstWallet(first).xpub,
                              amount |-> kwargs[p].amount,
                              description |-> FirstProduct(first).description]
                 /\ ret[p].kind \in {"return", "RPCError"}
                 /\ ret[p].kind = "return" => ret[p].xpub = FirstWallet(first).xpub
            ELSE /\ btc[p] = None
                 /\ ret[p] = ValidationError(first)

\* C8 witness: a create whose first product resolves and whose second product
\* has been deleted has returned, the first product's wallet having been used.
C8_Witness ==
    \E p \in Tasks :
        /\ pc[p] = "create_done"
        /\ Len(kwargs[p].products) = 2
        /\ kwargs[p].products[2] # kwargs[p].products[1]
        /\ ~ ProductExists(kwargs[p].products[2])
        /\ ret[p].xpub = FirstWallet(kwargs[p].products).xpub
====
